---- MODULE Spec2Model ----
(***************************************************************************)
(* Model of termynal/markdown.py: the line classifier Termynal.parse, the  *)
(* renderer Termynal.convert and the fence isolator                        *)
(* TermynalPreprocessor.run.                                               *)
(*                                                                         *)
(* A Python str is a sequence of one-character strings, so that prefix     *)
(* tests, splitting, escaping and the regular expressions are computed on  *)
(* characters as the code computes them.  A list of str is a sequence of   *)
(* such sequences.                                                         *)
(***************************************************************************)
EXTENDS Integers, Sequences, FiniteSets, TLC

VARIABLES
    title,                \* self.title of the preprocessor instance (NoTitle = None)
    prompt_literal_start, \* self.prompt_literal_start of the instance
    code_lines,           \* parse: the argument
    pos,                  \* parse: number of lines the for loop has consumed
    parsed,               \* parse: the result list
    multiline,            \* parse: the continuation flag
    prev,                 \* parse: index in parsed of the carried block, 0 = None
    parse_pc,             \* parse: "loop", "returned" or "raised"
    lines,                \* run r: the argument
    text,                 \* run r: the joined text, rewritten by phase 1
    placeholder_i,        \* run r: the placeholder counter
    store,                \* run r: placeholder -> [code, full]
    todo,                 \* run r: lines of text.split("\n") phase 2 has not visited
    new_lines,            \* run r: the result list
    is_ty_code,           \* run r: the pending marker flag
    pc,                   \* run r: "idle", "scan", "emit", "returned" or "raised"
    resolved,             \* run r: history of the store lookups of phase 2: the key, what
                          \* was done with the entry, and the number of the line of the text
    interleaved           \* history: a run took a step between the entry and the end of another

parse_vars == <<code_lines, pos, parsed, multiline, prev, parse_pc>>

run_vars == <<lines, text, placeholder_i, store, todo, new_lines, is_ty_code, pc, resolved,
              interleaved>>

vars == <<title, prompt_literal_start, parse_vars, run_vars>>

(***************************************************************************)
(* str helpers                                                             *)
(***************************************************************************)

\* str.startswith
StartsWith(s, p) == Len(p) <= Len(s) /\ SubSeq(s, 1, Len(p)) = p

\* str.endswith
EndsWith(s, p) == Len(p) <= Len(s) /\ SubSeq(s, Len(s) - Len(p) + 1, Len(s)) = p

\* the characters str.strip() removes
Whitespace == {" ", "\t", "\n", "\r", "\f"}

RECURSIVE LStrip(_)
LStrip(s) == IF s # <<>> /\ Head(s) \in Whitespace THEN LStrip(Tail(s)) ELSE s

RECURSIVE RStrip(_)
RStrip(s) == IF s # <<>> /\ s[Len(s)] \in Whitespace THEN RStrip(SubSeq(s, 1, Len(s) - 1)) ELSE s

\* str.strip()
Strip(s) == LStrip(RStrip(s))

\* str.replace(old, new) for a non-empty old: leftmost, non-overlapping
RECURSIVE Replace(_, _, _)
Replace(s, old, new) ==
    IF s = <<>> THEN <<>>
    ELSE IF StartsWith(s, old) THEN new \o Replace(SubSeq(s, Len(old) + 1, Len(s)), old, new)
    ELSE <<Head(s)>> \o Replace(Tail(s), old, new)

\* sep.join(parts)
RECURSIVE Join(_, _)
Join(parts, sep) ==
    IF parts = <<>> THEN <<>>
    ELSE IF Len(parts) = 1 THEN parts[1]
    ELSE parts[1] \o sep \o Join(Tail(parts), sep)

\* "".join(parts)
Concat(parts) == Join(parts, <<>>)

\* the first position from p on whose character is not in S, Len(t) + 1 if there is none
RECURSIVE SkipWhile(_, _, _)
SkipWhile(t, p, S) == IF p <= Len(t) /\ t[p] \in S THEN SkipWhile(t, p + 1, S) ELSE p

\* the first position from p on whose character is in S, Len(t) + 1 if there is none
RECURSIVE SkipUntil(_, _, _)
SkipUntil(t, p, S) == IF p <= Len(t) /\ t[p] \notin S THEN SkipUntil(t, p + 1, S) ELSE p

\* str.split("\n"): one piece more than there are newlines
RECURSIVE SplitLines(_)
SplitLines(s) ==
    LET j == SkipUntil(s, 1, {"\n"})
    IN  IF j <= Len(s)
        THEN <<SubSeq(s, 1, j - 1)>> \o SplitLines(SubSeq(s, j + 1, Len(s)))
        ELSE <<s>>

\* str.rsplit(sep) for a non-empty sep: every occurrence, found from the right
RECURSIVE RSplit(_, _)
RSplit(s, sep) ==
    LET n    == Len(sep)
        occ  == {j \in 1..(Len(s) - n + 1) : SubSeq(s, j, j + n - 1) = sep}
    IN  IF occ = {} THEN <<s>>
        ELSE LET j == CHOOSE k \in occ : \A m \in occ : m <= k
             IN  RSplit(SubSeq(s, 1, j - 1), sep) \o <<SubSeq(s, j + n, Len(s))>>

(***************************************************************************)
(* make_regex_prompts                                                      *)
(***************************************************************************)

\* the characters re.escape puts a backslash before (those the model's alphabet has)
SpecialChars == {"(", ")", "[", "]", "{", "}", "?", "*", "+", "-", "|", "^", "$",
                 "\\", ".", "&", "~", "#", " ", "\t", "\n", "\r", "\f"}

\* re.escape
RECURSIVE re_escape(_)
re_escape(s) ==
    IF s = <<>> THEN <<>>
    ELSE (IF Head(s) \in SpecialChars THEN <<"\\", Head(s)>> ELSE <<Head(s)>>)
         \o re_escape(Tail(s))

\* the two replacements of prompt_to_replace, ">" first
ReplaceAngles(p) == Replace(Replace(p, <<">">>, <<"&","g","t",";">>), <<"<">>, <<"&","l","t",";">>)

\* the source of one alternative of the pattern: f"{p} " of the escaped, stripped, replaced prompt
PromptAlternative(p) == ReplaceAngles(Strip(re_escape(p))) \o <<" ">>

\* the literal a pattern source of escaped characters matches: backslash + c is c
RECURSIVE Unescape(_)
Unescape(s) ==
    IF s = <<>> THEN <<>>
    ELSE IF Head(s) = "\\" /\ Len(s) >= 2 THEN <<s[2]>> \o Unescape(SubSeq(s, 3, Len(s)))
    ELSE <<Head(s)>> \o Unescape(Tail(s))

\* the compiled pattern ^(a1|a2|...) as the ordered literals of its alternatives;
\* no prompt at all gives ^(), which <<>> stands for
make_regex_prompts(prompts) == [k \in 1..Len(prompts) |-> Unescape(PromptAlternative(prompts[k]))]

\* regex_prompts.match(line): [found, group]; the first alternative that is a
\* prefix of the line wins, and ^() matches the empty string at every line
RegexMatch(regex, line) ==
    IF regex = <<>> THEN [found |-> TRUE, group |-> <<>>]
    ELSE IF \E k \in 1..Len(regex) : StartsWith(line, regex[k])
    THEN LET k == CHOOSE a \in 1..Len(regex) :
                     /\ StartsWith(line, regex[a])
                     /\ \A b \in 1..(a - 1) : ~StartsWith(line, regex[b])
         IN  [found |-> TRUE, group |-> regex[k]]
    ELSE [found |-> FALSE, group |-> <<>>]

(***************************************************************************)
(* Termynal                                                                *)
(***************************************************************************)

NoTitle == <<"None">>

\* "---&gt; 100%"
progress_literal_start == <<"-","-","-","&","g","t",";"," ","1","0","0","%">>

\* "# "
comment_literal_start == <<"#"," ">>

\* self.regex_prompts
regex_prompts == make_regex_prompts(prompt_literal_start)

Command(prompt, ls) == [kind |-> "Command", prompt |-> prompt, lines |-> ls]

Comment(ls) == [kind |-> "Comment", prompt |-> <<>>, lines |-> ls]

Output(ls) == [kind |-> "Output", prompt |-> <<>>, lines |-> ls]

Progress == [kind |-> "Progress", prompt |-> <<>>, lines |-> <<>>]

\* the state parse carries from line to line
ParseStart == [parsed |-> <<>>, multiline |-> FALSE, prev |-> 0, raised |-> FALSE]

\* line.endswith("\\")
Continues(line) == EndsWith(line, <<"\\">>)

\* prev.lines.append(line), prev being a reference to a block of parsed
AppendToPrev(st, line) ==
    [st.parsed EXCEPT ![st.prev].lines = Append(@, line)]

\* Branch with the continuation test ahead of the prompt test
BranchContinuationFirst(st, regex, line) ==
    IF st.multiline THEN "continuation"
    ELSE IF RegexMatch(regex, line).found THEN "prompt"
    ELSE IF StartsWith(line, comment_literal_start) THEN "comment"
    ELSE IF StartsWith(line, progress_literal_start) THEN "progress"
    ELSE IF st.prev # 0 /\ st.parsed[st.prev].kind = "Output" THEN "append"
    ELSE "output"

\* Branch with the comment and progress tests ahead of the continuation test
BranchCommentFirst(st, regex, line) ==
    IF RegexMatch(regex, line).found THEN "prompt"
    ELSE IF StartsWith(line, comment_literal_start) THEN "comment"
    ELSE IF StartsWith(line, progress_literal_start) THEN "progress"
    ELSE IF st.multiline THEN "continuation"
    ELSE IF st.prev # 0 /\ st.parsed[st.prev].kind = "Output" THEN "append"
    ELSE "output"

\* the branch of the loop body a line takes
Branch(st, regex, line) ==
    IF RegexMatch(regex, line).found THEN "prompt"
    ELSE IF st.multiline THEN "continuation"
    ELSE IF StartsWith(line, comment_literal_start) THEN "comment"
    ELSE IF StartsWith(line, progress_literal_start) THEN "progress"
    ELSE IF st.prev # 0 /\ st.parsed[st.prev].kind = "Output" THEN "append"
    ELSE "output"

\* line.rsplit(used_prompt)[1]
FirstFragment(line, used_prompt) == RSplit(line, used_prompt)[2]

\* PromptBranch that appends the Command without carrying it as prev
PromptBranchNoCarry(st, regex, line) ==
    LET used_prompt == RegexMatch(regex, line).group
    IN  IF used_prompt = <<>> THEN [st EXCEPT !.raised = TRUE]
        ELSE [parsed    |-> Append(st.parsed,
                                   Command(Strip(used_prompt), <<FirstFragment(line, used_prompt)>>)),
              multiline |-> Continues(line),
              prev      |-> st.prev,
              raised    |-> FALSE]

\* lines 75-78; rsplit raises ValueError on an empty separator
PromptBranch(st, regex, line) ==
    LET used_prompt == RegexMatch(regex, line).group
    IN  IF used_prompt = <<>> THEN [st EXCEPT !.raised = TRUE]
        ELSE [parsed    |-> Append(st.parsed,
                                   Command(Strip(used_prompt), <<FirstFragment(line, used_prompt)>>)),
              multiline |-> Continues(line),
              prev      |-> Len(st.parsed) + 1,
              raised    |-> FALSE]

\* ContinuationBranch without line 83: the flag is left as it was
ContinuationBranchSticky(st, line) ==
    [st EXCEPT !.parsed = IF st.prev # 0 /\ st.parsed[st.prev].kind = "Command"
                          THEN AppendToPrev(st, line) ELSE @]

\* lines 81-83
ContinuationBranch(st, line) ==
    [st EXCEPT !.parsed    = IF st.prev # 0 /\ st.parsed[st.prev].kind = "Command"
                             THEN AppendToPrev(st, line) ELSE @,
               !.multiline = Continues(line)]

\* CommentBranch without line 86: the carried block is left as it was
CommentBranchKeepPrev(st, line) ==
    [st EXCEPT !.parsed = Append(@, Comment(<<line>>))]

\* lines 86-87
CommentBranch(st, line) ==
    [st EXCEPT !.prev = 0, !.parsed = Append(@, Comment(<<line>>))]

\* lines 90-91
ProgressBranch(st, line) ==
    [st EXCEPT !.prev = 0, !.parsed = Append(@, Progress)]

\* AppendBranch that assigns the line list instead of appending to it
AppendBranchOverwrite(st, line) ==
    [st EXCEPT !.parsed = [st.parsed EXCEPT ![st.prev].lines = <<line>>]]

\* line 94
AppendBranch(st, line) ==
    [st EXCEPT !.parsed = AppendToPrev(st, line)]

\* lines 96-97
OutputBranch(st, line) ==
    [st EXCEPT !.prev = Len(st.parsed) + 1, !.parsed = Append(@, Output(<<line>>))]

\* one iteration of the for loop of parse
ParseLine(st, regex, line) ==
    CASE Branch(st, regex, line) = "prompt"       -> PromptBranch(st, regex, line)
      [] Branch(st, regex, line) = "continuation" -> ContinuationBranch(st, line)
      [] Branch(st, regex, line) = "comment"      -> CommentBranch(st, line)
      [] Branch(st, regex, line) = "progress"     -> ProgressBranch(st, line)
      [] Branch(st, regex, line) = "append"       -> AppendBranch(st, line)
      [] OTHER                                    -> OutputBranch(st, line)

\* parse(code_lines) as a function: the loop run to its end, or to the raise
RECURSIVE ParseFrom(_, _, _)
ParseFrom(st, regex, ls) ==
    IF ls = <<>> \/ st.raised THEN st
    ELSE ParseFrom(ParseLine(st, regex, Head(ls)), regex, Tail(ls))

parse(regex, ls) == ParseFrom(ParseStart, regex, ls)

(***************************************************************************)
(* Termynal.convert                                                        *)
(***************************************************************************)

\* the markup of one block, lines 111-129
RenderBlock(block) ==
    CASE block.kind = "Command" ->
            <<"<","s","p","a","n"," ","d","a","t","a","-","t","y","=","\"","i","n","p","u","t","\""," ","d","a","t","a","-","t","y","-","p","r","o","m","p","t","=","\"">>
            \o block.prompt \o <<"\"",">">> \o Join(block.lines, <<"\n">>)
            \o <<"<","/","s","p","a","n",">">>
      [] block.kind = "Comment" ->
            <<"<","s","p","a","n"," ","c","l","a","s","s","=","\"","t","e","r","m","y","n","a","l","-","c","o","m","m","e","n","t","\""," ","d","a","t","a","-","t","y",">">>
            \o Join(block.lines, <<"\n">>) \o <<"<","/","s","p","a","n",">">>
      [] block.kind = "Progress" ->
            <<"<","s","p","a","n"," ","d","a","t","a","-","t","y","=","\"","p","r","o","g","r","e","s","s","\"",">","<","/","s","p","a","n",">">>
      [] OTHER ->
            <<"<","s","p","a","n"," ","d","a","t","a","-","t","y",">">>
            \o Join(block.lines, <<"<","b","r",">">>) \o <<"<","/","s","p","a","n",">">>

\* the opening tag of the container, lines 103-108
ContainerOpen(ttl) ==
    IF ttl # NoTitle
    THEN <<"<","d","i","v"," ","c","l","a","s","s","=","\"","t","e","r","m","y","\""," ","d","a","t","a","-","t","e","r","m","y","n","a","l"," ","d","a","t","a","-","t","y","-","t","i","t","l","e","=","\"">>
         \o ttl \o <<"\"",">">>
    ELSE <<"<","d","i","v"," ","c","l","a","s","s","=","\"","t","e","r","m","y","\"",">">>

\* the lines convert hands to parse: code.split("\n")
ClassifiedLines(code) == SplitLines(code)

\* convert(code): [raised, out]
convert(ttl, regex, code) ==
    LET res == parse(regex, ClassifiedLines(code))
    IN  [raised |-> res.raised,
         out    |-> IF res.raised THEN <<>>
                    ELSE ContainerOpen(ttl)
                         \o Concat([k \in 1..Len(res.parsed) |-> RenderBlock(res.parsed[k])])
                         \o <<"<","/","d","i","v",">">>]

(***************************************************************************)
(* TermynalPreprocessor: constants, _escape, FENCED_BLOCK_RE               *)
(***************************************************************************)

\* "<!-- termynal -->"
ty_comment == <<"<","!","-","-"," ","t","e","r","m","y","n","a","l"," ","-","-",">">>

\* "9HDrdgVBNLga"
marker == <<"9","H","D","r","d","g","V","B","N","L","g","a">>

Digits == <<"0","1","2","3","4","5","6","7","8","9">>

\* the decimal digits an f-string writes for a non-negative int
RECURSIVE Str(_)
Str(n) == IF n < 10 THEN <<Digits[n + 1]>> ELSE Str(n \div 10) \o <<Digits[(n % 10) + 1]>>

\* Placeholder that writes the same index for every fence
PlaceholderUnnumbered(n) == marker \o <<"-">> \o Str(0)

\* f"{self.marker}-{placeholder_i}"
Placeholder(n) == marker \o <<"-">> \o Str(n)

\* _escape: the four replacements, "&" first
escape(txt) ==
    Replace(Replace(Replace(Replace(txt, <<"&">>, <<"&","a","m","p",";">>),
                            <<"<">>, <<"&","l","t",";">>),
                    <<">">>, <<"&","g","t",";">>),
            <<"\"">>, <<"&","q","u","o","t",";">>)

\* \w, for ASCII text
WordChars ==
    {"a","b","c","d","e","f","g","h","i","j","k","l","m","n","o","p","q","r","s","t","u","v","w","x","y","z",
     "A","B","C","D","E","F","G","H","I","J","K","L","M","N","O","P","Q","R","S","T","U","V","W","X","Y","Z",
     "0","1","2","3","4","5","6","7","8","9","_"}

\* [\w#.+-]
LangChars == WordChars \cup {"#", ".", "+", "-"}

\* the positions the pattern can be at after [ ]* from p
SpacesFrom(t, p) == p..SkipWhile(t, p, {" "})

AfterSpaces(t, P) == UNION {SpacesFrom(t, p) : p \in P}

\* (\{(?P<attrs>[^\}\n]*)\})
AttrsEnds(t, P) ==
    {SkipUntil(t, p + 1, {"}", "\n"}) + 1 :
        p \in {p \in P : /\ p <= Len(t)
                         /\ t[p] = "{"
                         /\ SkipUntil(t, p + 1, {"}", "\n"}) <= Len(t)
                         /\ t[SkipUntil(t, p + 1, {"}", "\n"})] = "}"}}

\* \.?
OptDot(t, P) == P \cup {p + 1 : p \in {p \in P : p <= Len(t) /\ t[p] = "."}}

\* (?P<lang>[\w#.+-]*)
LangFrom(t, p) == p..SkipWhile(t, p, LangChars)

\* (\.?(?P<lang>[\w#.+-]*)[ ]*)?
LangGroup(t, P) == P \cup AfterSpaces(t, UNION {LangFrom(t, p) : p \in OptDot(t, P)})

HlPrefix == <<"h","l","_","l","i","n","e","s","=">>

\* (hl_lines=(?P<quot>"|')(?P<hl_lines>.*?)(?P=quot)[ ]*)? ; "." matches newlines too
HlGroup(t, P) ==
    P \cup AfterSpaces(t,
             UNION {{q + 1 : q \in {q \in (p + Len(HlPrefix) + 1)..Len(t) :
                                       t[q] = t[p + Len(HlPrefix)]}} :
                    p \in {p \in P : /\ p + Len(HlPrefix) <= Len(t)
                                     /\ SubSeq(t, p, p + Len(HlPrefix) - 1) = HlPrefix
                                     /\ t[p + Len(HlPrefix)] \in {"\"", "'"}}})

\* where the text after the opening fence characters can end, before the newline
InfoEnds(t, p) ==
    AttrsEnds(t, SpacesFrom(t, p)) \cup HlGroup(t, LangGroup(t, SpacesFrom(t, p)))

\* the positions after the newline that ends an opening fence of k characters at s
OpenEnds(t, s, k) ==
    {q + 1 : q \in {q \in InfoEnds(t, s + k) : q <= Len(t) /\ t[q] = "\n"}}

\* the backquote, which a TLA+ string cannot hold
Backquote == "U+0060"

\* the longest run of one fence character at s: ~{3,} or a run of backquotes
FenceRun(t, s) ==
    IF s <= Len(t) /\ t[s] \in {"~", Backquote} THEN SkipWhile(t, s, {t[s]}) - s ELSE 0

\* ^ under re.MULTILINE: the start of the text and the positions after a newline
LineStarts(t) == {1} \cup {j + 1 : j \in {j \in 1..Len(t) : t[j] = "\n"}}

\* ClosesAt that lets more fence characters follow the k of the opening fence
ClosesAtLonger(t, s, k, c) ==
    /\ c + k - 1 <= Len(t)
    /\ \A m \in 0..(k - 1) : t[c + m] = t[s]
    /\ LET e == SkipWhile(t, SkipWhile(t, c + k, {t[s]}), {" "})
       IN  e = Len(t) + 1 \/ t[e] = "\n"

\* (?P=fence)[ ]*$ at the line start c, for the fence of k characters at s
ClosesAt(t, s, k, c) ==
    /\ c + k - 1 <= Len(t)
    /\ \A m \in 0..(k - 1) : t[c + m] = t[s]
    /\ LET e == SkipWhile(t, c + k, {" "}) IN e = Len(t) + 1 \/ t[e] = "\n"

\* the position after the closing fence line that starts at c
CloseEnd(t, k, c) == SkipWhile(t, c + k, {" "})

\* the matches of the pattern that start at the line start s: fence length k,
\* code from o, closing fence at c; (?<=\n) puts c at a line start
MatchesAt(t, s) ==
    UNION {UNION {{[k |-> k, o |-> o, c |-> c] :
                      c \in {c \in LineStarts(t) : c >= o /\ ClosesAt(t, s, k, c)}} :
                  o \in OpenEnds(t, s, k)} :
           k \in 3..FenceRun(t, s)}

\* the match the backtracking finds first: the greedy fence, then the lazy
\* hl_lines value, then the lazy code
FirstMatch(M) ==
    CHOOSE m \in M : \A n \in M :
        \/ m.k > n.k
        \/ m.k = n.k /\ m.o < n.o
        \/ m.k = n.k /\ m.o = n.o /\ m.c <= n.c

NoMatch == [found |-> FALSE, start |-> 0, end |-> 0, code |-> <<>>]

\* search that returns the rightmost match instead of the leftmost
searchRightmost(t) ==
    LET starts == {s \in LineStarts(t) : MatchesAt(t, s) # {}}
    IN  IF starts = {} THEN NoMatch
        ELSE LET s == CHOOSE a \in starts : \A b \in starts : a >= b
                 m == FirstMatch(MatchesAt(t, s))
             IN  [found |-> TRUE, start |-> s, end |-> CloseEnd(t, m.k, m.c),
                  code  |-> SubSeq(t, m.o, m.c - 1)]

\* FENCED_BLOCK_RE.search(text): the leftmost match; start and end are
\* m.start() + 1 and m.end() + 1, code is m.group("code")
search(t) ==
    LET starts == {s \in LineStarts(t) : MatchesAt(t, s) # {}}
    IN  IF starts = {} THEN NoMatch
        ELSE LET s == CHOOSE a \in starts : \A b \in starts : a <= b
                 m == FirstMatch(MatchesAt(t, s))
             IN  [found |-> TRUE, start |-> s, end |-> CloseEnd(t, m.k, m.c),
                  code  |-> SubSeq(t, m.o, m.c - 1)]

(***************************************************************************)
(* TermynalPreprocessor.run: the steps of its two loops                    *)
(***************************************************************************)

\* store[placeholder] = (code, text[m.start() : m.end()])
StoreEntry(t, m) == [code |-> m.code, full |-> SubSeq(t, m.start, m.end - 1)]

\* a dict with key set to val
Put(st, key, val) == [k \in (DOMAIN st) \cup {key} |-> IF k = key THEN val ELSE st[k]]

\* Splice that puts the placeholder in without the two newlines around it
SpliceBare(t, m, placeholder) ==
    SubSeq(t, 1, m.start - 1) \o placeholder \o SubSeq(t, m.end, Len(t))

\* f"{text[:m.start()]}\n{placeholder}\n{text[m.end():]}"
Splice(t, m, placeholder) ==
    SubSeq(t, 1, m.start - 1) \o <<"\n">> \o placeholder \o <<"\n">> \o SubSeq(t, m.end, Len(t))

\* ExtractStep that leaves the text as it was
ExtractStepKeepText(loc, m) ==
    [text          |-> loc.text,
     placeholder_i |-> loc.placeholder_i + 1,
     store         |-> Put(loc.store, Placeholder(loc.placeholder_i), StoreEntry(loc.text, m))]

\* one iteration of the while loop that finds a match m
ExtractStep(loc, m) ==
    [text          |-> Splice(loc.text, m, Placeholder(loc.placeholder_i)),
     placeholder_i |-> loc.placeholder_i + 1,
     store         |-> Put(loc.store, Placeholder(loc.placeholder_i), StoreEntry(loc.text, m))]

\* store[line][0]
StoredCode(entry) == entry.code

\* StoredText that takes element 0 of the pair, the inner code
StoredTextInner(entry) == entry.code

\* store[line][1]
StoredText(entry) == entry.full

\* the branch of the for loop of phase 2 a line takes
EmitBranch(flag, st, line) ==
    IF StartsWith(line, ty_comment) THEN "marker"
    ELSE IF flag /\ line \in DOMAIN st THEN "convert"
    ELSE IF line \in DOMAIN st THEN "restore"
    ELSE "line"

\* FlagAfterConvert that leaves the flag set
FlagAfterConvertKept == TRUE

\* is_ty_code after a line that is converted
FlagAfterConvert == FALSE

\* one iteration of the for loop of phase 2; acc is [seen, new_lines,
\* is_ty_code, resolved, raised], seen being the number of lines visited
EmitStep(acc, st, ttl, regex, line) ==
    CASE EmitBranch(acc.is_ty_code, st, line) = "marker" ->
            [acc EXCEPT !.seen = @ + 1, !.is_ty_code = TRUE]
      [] EmitBranch(acc.is_ty_code, st, line) = "convert" ->
            LET res == convert(ttl, regex, escape(StoredCode(st[line])))
            IN  IF res.raised
                THEN [acc EXCEPT !.raised = TRUE]
                ELSE [acc EXCEPT !.seen = @ + 1,
                                 !.new_lines = Append(@, res.out),
                                 !.is_ty_code = FlagAfterConvert,
                                 !.resolved = Append(@, [key |-> line, how |-> "convert",
                                                         at |-> acc.seen + 1])]
      [] EmitBranch(acc.is_ty_code, st, line) = "restore" ->
            [acc EXCEPT !.seen = @ + 1,
                        !.new_lines = Append(@, StoredText(st[line])),
                        !.resolved = Append(@, [key |-> line, how |-> "restore",
                                                at |-> acc.seen + 1])]
      [] OTHER ->
            [acc EXCEPT !.seen = @ + 1, !.new_lines = Append(@, line)]

\* the while loop of phase 1, run to its end
RECURSIVE ScanAll(_)
ScanAll(loc) ==
    LET m == search(loc.text)
    IN  IF m.found THEN ScanAll(ExtractStep(loc, m)) ELSE loc

\* the for loop of phase 2, run to its end or to the raise
RECURSIVE EmitAll(_, _, _, _, _)
EmitAll(acc, st, ttl, regex, ls) ==
    IF ls = <<>> \/ acc.raised THEN acc
    ELSE EmitAll(EmitStep(acc, st, ttl, regex, Head(ls)), st, ttl, regex, Tail(ls))

\* run(lines) as a function of the instance's configuration and the document
run(ttl, regex, doc) ==
    LET loc == ScanAll([text |-> Join(doc, <<"\n">>), placeholder_i |-> 0,
                        store |-> [k \in {} |-> <<>>]])
    IN  EmitAll([seen |-> 0, new_lines |-> <<>>, is_ty_code |-> FALSE, resolved |-> <<>>,
                 raised |-> FALSE],
                loc.store, ttl, regex, SplitLines(loc.text))

(***************************************************************************)
(* Inputs                                                                  *)
(***************************************************************************)

\* longest line list handed to parse
MaxParseLines == 3

\* every sequence over S of length at most n
SeqsUpTo(S, n) == UNION {[1..k -> S] : k \in 0..n}

\* lines of a terminal transcript, as parse receives them (already escaped):
\* "$ ls", "$ a \", "b \", "x", "# c", "---&gt; 100%", "$ e $ f", "&gt; q"
ParseLinePool ==
    { <<"$"," ","l","s">>,
      <<"$"," ","a"," ","\\">>,
      <<"b"," ","\\">>,
      <<"x">>,
      <<"#"," ","c">>,
      <<"-","-","-","&","g","t",";"," ","1","0","0","%">>,
      <<"$"," ","e"," ","$"," ","f">>,
      <<"&","g","t",";"," ","q">> }

\* prompt_literal_start: the default ("$",), two markers one of which is
\* translated to its entity, and no marker at all
PromptConfigs == { <<(<<"$">>)>>, <<(<<">">>), <<"$"," ">> >>, <<>> }

Runs == {1, 2}

NoStore == [k \in {} |-> <<>>]

RunIdle ==
    /\ lines = [r \in Runs |-> <<>>]
    /\ text = [r \in Runs |-> <<>>]
    /\ placeholder_i = [r \in Runs |-> 0]
    /\ store = [r \in Runs |-> NoStore]
    /\ todo = [r \in Runs |-> <<>>]
    /\ new_lines = [r \in Runs |-> <<>>]
    /\ is_ty_code = [r \in Runs |-> FALSE]
    /\ pc = [r \in Runs |-> "idle"]
    /\ resolved = [r \in Runs |-> <<>>]
    /\ interleaved = FALSE

(***************************************************************************)
(* Termynal.parse, one loop iteration per step                             *)
(***************************************************************************)

InitParse ==
    /\ title = NoTitle
    /\ prompt_literal_start \in PromptConfigs
    /\ code_lines \in SeqsUpTo(ParseLinePool, MaxParseLines)
    /\ pos = 0
    /\ parsed = <<>>
    /\ multiline = FALSE
    /\ prev = 0
    /\ parse_pc = "loop"
    /\ RunIdle

\* the loop state as ParseLine takes it
ParseState == [parsed |-> parsed, multiline |-> multiline, prev |-> prev, raised |-> FALSE]

\* the next line of the for loop takes branch b
ParseIteration(b) ==
    /\ parse_pc = "loop"
    /\ pos < Len(code_lines)
    /\ Branch(ParseState, regex_prompts, code_lines[pos + 1]) = b
    /\ LET nx == ParseLine(ParseState, regex_prompts, code_lines[pos + 1])
       IN  /\ parsed' = nx.parsed
           /\ multiline' = nx.multiline
           /\ prev' = nx.prev
           /\ parse_pc' = IF nx.raised THEN "raised" ELSE "loop"
           /\ pos' = IF nx.raised THEN pos ELSE pos + 1
    /\ UNCHANGED <<title, prompt_literal_start, code_lines, run_vars>>

\* lines 74-78
ParsePrompt ==
    /\ pos < Len(code_lines)
    /\ RegexMatch(regex_prompts, code_lines[pos + 1]).group # <<>>
    /\ ParseIteration("prompt")

\* line 76, rsplit raising on the empty match
ParseRaise ==
    /\ pos < Len(code_lines)
    /\ RegexMatch(regex_prompts, code_lines[pos + 1]).group = <<>>
    /\ ParseIteration("prompt")

\* lines 80-83
ParseContinuation ==
    /\ pos < Len(code_lines)
    /\ ParseIteration("continuation")

\* lines 85-87
ParseComment ==
    /\ pos < Len(code_lines)
    /\ ParseIteration("comment")

\* lines 89-91
ParseProgress ==
    /\ pos < Len(code_lines)
    /\ ParseIteration("progress")

\* lines 93-94
ParseAppend ==
    /\ pos < Len(code_lines)
    /\ ParseIteration("append")

\* lines 95-97
ParseOutput ==
    /\ pos < Len(code_lines)
    /\ ParseIteration("output")

ParseReturn ==
    /\ parse_pc = "loop"
    /\ pos = Len(code_lines)
    /\ parse_pc' = "returned"
    /\ UNCHANGED <<title, prompt_literal_start, code_lines, pos, parsed, multiline, prev, run_vars>>

NextParse ==
    \/ ParsePrompt
    \/ ParseRaise
    \/ ParseContinuation
    \/ ParseComment
    \/ ParseProgress
    \/ ParseAppend
    \/ ParseOutput
    \/ ParseReturn

SpecParse == InitParse /\ [][NextParse]_vars

(***************************************************************************)
(* Properties of Termynal.parse                                            *)
(***************************************************************************)

\* the lines a block accounts for, one entry each: the block's index and
\* kind, whether the entry is the block's first, and its text
BlockEntries(blocks, b) ==
    IF blocks[b].kind = "Progress"
    THEN <<[block |-> b, kind |-> "Progress", head |-> TRUE, text |-> <<>>]>>
    ELSE [k \in 1..Len(blocks[b].lines) |->
             [block |-> b, kind |-> blocks[b].kind, head |-> k = 1, text |-> blocks[b].lines[k]]]

RECURSIVE EntriesFrom(_, _)
EntriesFrom(blocks, b) ==
    IF b > Len(blocks) THEN <<>> ELSE BlockEntries(blocks, b) \o EntriesFrom(blocks, b + 1)

\* parsed, one entry per accounted line
Entries == EntriesFrom(parsed, 1)

\* the line matches the configured prompt pattern
IsPromptLine(line) == RegexMatch(regex_prompts, line).found

\* the lines consumed so far that match the prompt pattern
PromptLines == SelectSeq(SubSeq(code_lines, 1, pos), IsPromptLine)

IsCommand(block) == block.kind = "Command"

\* the Command blocks of parsed
Commands == SelectSeq(parsed, IsCommand)

\* C4: parse assigns every input line to exactly one block, in input order:
\* the blocks account for as many lines as the loop has consumed (a Progress
\* block for the one line that produced it), the j-th accounted line is the
\* j-th input line, and no line is lost.
C4_EveryLineInOneBlock ==
    /\ Len(Entries) = pos
    /\ \A j \in 1..Len(Entries) :
          CASE Entries[j].kind = "Command" /\ Entries[j].head -> IsPromptLine(code_lines[j])
            [] Entries[j].kind = "Progress" -> StartsWith(code_lines[j], progress_literal_start)
            [] OTHER -> Entries[j].text = code_lines[j]

\* three lines in fewer blocks: parse has grouped lines and returned
C4_Witness ==
    /\ parse_pc = "returned"
    /\ pos >= 3
    /\ Len(parsed) < pos
    /\ \E b \in 1..Len(parsed) : parsed[b].kind = "Output" /\ Len(parsed[b].lines) >= 2

\* C5: every line that matches a prompt marker at line start begins a new
\* Command, whatever the parser state: there are as many Command blocks as
\* prompt-matching lines consumed, and the k-th Command carries the prompt
\* matched on the k-th such line.
C5_PromptLineStartsCommand ==
    /\ Len(Commands) = Len(PromptLines)
    /\ \A k \in 1..Len(Commands) :
          /\ Commands[k].prompt = Strip(RegexMatch(regex_prompts, PromptLines[k]).group)
          /\ Len(Commands[k].lines) >= 1

\* a prompt line directly after a prompt line that ends with a backslash
C5_Witness ==
    /\ parse_pc = "returned"
    /\ \E j \in 1..(pos - 1) :
          /\ IsPromptLine(code_lines[j])
          /\ Continues(code_lines[j])
          /\ IsPromptLine(code_lines[j + 1])
    /\ Len(Commands) >= 2

\* a non-prompt line is in a Command exactly when the line before it ended
\* with a backslash and is in that Command
ContinuationRule ==
    /\ Len(Entries) = pos
    /\ \A j \in 1..pos :
          ~IsPromptLine(code_lines[j]) =>
             /\ Entries[j].kind = "Command" <=>
                   (j > 1 /\ Entries[j - 1].kind = "Command" /\ Continues(code_lines[j - 1]))
             /\ Entries[j].kind = "Command" => Entries[j].block = Entries[j - 1].block

\* C6 as stated: the continuation rule, and multilineActive after a line is
\* true iff that line ends with a backslash.
C6_FlagIffBackslash ==
    parse_pc \in {"loop", "returned"} =>
       /\ ContinuationRule
       /\ pos > 0 => (multiline <=> Continues(code_lines[pos]))

\* C6, amended: the continuation rule, and multilineActive after a line is
\* true iff that line ends with a backslash and is a line of a Command (a
\* prompt line or a continuation); a comment, progress or output line that
\* ends with a backslash leaves it false.
C6_FlagIffCommandLineContinues ==
    parse_pc \in {"loop", "returned"} =>
       /\ ContinuationRule
       /\ pos > 0 => (multiline <=> (Continues(code_lines[pos]) /\ Entries[pos].kind = "Command"))
       /\ pos = 0 => ~multiline

\* a prompt line ending with a backslash and one more line, as one Command
\* of two fragments, with the flag false at the end
C6_Witness ==
    /\ parse_pc = "returned"
    /\ pos = 2
    /\ IsPromptLine(code_lines[1]) /\ Continues(code_lines[1])
    /\ ~IsPromptLine(code_lines[2]) /\ ~Continues(code_lines[2])
    /\ Len(parsed) = 1
    /\ parsed[1].kind = "Command" /\ Len(parsed[1].lines) = 2
    /\ ~multiline

\* C7: parse and run never raise, whatever the lines and the prompt markers.
C7_NeverRaises == parse_pc # "raised" /\ \A r \in Runs : pc[r] # "raised"

\* the text after the last occurrence of sep in line
AfterLast(line, sep) ==
    LET occ == {j \in 1..(Len(line) - Len(sep) + 1) : SubSeq(line, j, j + Len(sep) - 1) = sep}
        j   == CHOOSE a \in occ : \A b \in occ : b <= a
    IN  SubSeq(line, j + Len(sep), Len(line))

\* C9: the first fragment of a Command is the part of its prompt line after
\* the last occurrence of the matched prompt and space.
C9_FragmentAfterLastOccurrence ==
    Len(Commands) = Len(PromptLines) =>
       \A k \in 1..Len(Commands) :
          Commands[k].lines[1] =
             AfterLast(PromptLines[k], RegexMatch(regex_prompts, PromptLines[k]).group)

(***************************************************************************)
(* TermynalPreprocessor.run, one loop iteration per step                   *)
(***************************************************************************)

\* longest document handed to run
MaxDocLines == 4

\* "```"
Fence3 == <<Backquote, Backquote, Backquote>>

\* "````"
Fence4 == <<Backquote, Backquote, Backquote, Backquote>>

\* document lines: "```", "````", "<!-- termynal -->", "$ ls" and a line that
\* spells the first placeholder token
DocLinePool ==
    { Fence3, Fence4, ty_comment, <<"$"," ","l","s">>, Placeholder(0) }

\* the end-to-end document of the specification
EndToEndDoc ==
    << ty_comment,
       Fence3 \o <<"b","a","s","h">>,
       <<"$"," ","p","i","p"," ","i","n","s","t","a","l","l"," ","f","o","o">>,
       <<"-","-","-",">"," ","1","0","0","%">>,
       <<"S","u","c","c","e","s","s","f","u","l","l","y"," ","i","n","s","t","a","l","l","e","d"," ","f","o","o">>,
       Fence3 >>

\* a "~~~" block that holds a "```" line and a "~~~~" line, closed by "~~~ "
TildeDoc ==
    << <<"~","~","~">>, Fence3, <<"~","~","~","~">>, <<"~","~","~"," ">>, <<"$"," ","l","s">> >>

\* two marker lines, a block and a second block without a marker of its own
TwoMarkersDoc ==
    << ty_comment, ty_comment, Fence3, <<"$"," ","l","s">>, Fence3,
       Fence3, <<"$"," ","l","s">>, Fence3 >>

\* the documents of a single run: every non-empty one up to the bound, the
\* end-to-end one and the scenarios
Documents ==
    (SeqsUpTo(DocLinePool, MaxDocLines) \ {<<>>}) \cup {EndToEndDoc, TildeDoc, TwoMarkersDoc}

\* the configurations of the instance, lines 155-156: the defaults of
\* config.get, the defaults of TermynalExtension, and no prompt marker
RunConfigs ==
    { [title |-> NoTitle, prompts |-> <<(<<"$"," ">>)>>],
      [title |-> <<"b","a","s","h">>, prompts |-> <<(<<"$">>)>>],
      [title |-> NoTitle, prompts |-> <<>>] }

ParseIdle ==
    /\ code_lines = <<>>
    /\ pos = 0
    /\ parsed = <<>>
    /\ multiline = FALSE
    /\ prev = 0
    /\ parse_pc = "idle"

InitRun ==
    /\ \E cfg \in RunConfigs : title = cfg.title /\ prompt_literal_start = cfg.prompts
    /\ \E doc \in Documents : lines = [r \in Runs |-> IF r = 1 THEN doc ELSE <<>>]
    /\ text = [r \in Runs |-> <<>>]
    /\ placeholder_i = [r \in Runs |-> 0]
    /\ store = [r \in Runs |-> NoStore]
    /\ todo = [r \in Runs |-> <<>>]
    /\ new_lines = [r \in Runs |-> <<>>]
    /\ is_ty_code = [r \in Runs |-> FALSE]
    /\ pc = [r \in Runs |-> "idle"]
    /\ resolved = [r \in Runs |-> <<>>]
    /\ interleaved = FALSE
    /\ ParseIdle

\* StoreOf for a dict kept on the instance: every run uses the same one
StoreOfInstance(r) == 1

\* the dict the name store is bound to in run r: a local of the call
StoreOf(r) == r

\* the int the name placeholder_i is bound to in run r: a local of the call
CounterOf(r) == r

\* a step of run r, recorded as interleaved when another run is under way
Interleave(r) ==
    interleaved' = (interleaved \/ \E q \in Runs \ {r} : pc[q] \in {"scan", "emit"})

\* lines 161-163
RunEnter(r) ==
    /\ pc[r] = "idle"
    /\ placeholder_i' = [placeholder_i EXCEPT ![CounterOf(r)] = 0]
    /\ text' = [text EXCEPT ![r] = Join(lines[r], <<"\n">>)]
    /\ store' = [store EXCEPT ![StoreOf(r)] = NoStore]
    /\ pc' = [pc EXCEPT ![r] = "scan"]
    /\ Interleave(r)
    /\ UNCHANGED <<title, prompt_literal_start, parse_vars, lines, todo, new_lines,
                   is_ty_code, resolved>>

\* the locals of phase 1 as ExtractStep takes them
ScanLocals(r) ==
    [text |-> text[r], placeholder_i |-> placeholder_i[CounterOf(r)], store |-> store[StoreOf(r)]]

\* lines 165-171: one iteration that finds a fence
ExtractFence(r) ==
    /\ pc[r] = "scan"
    /\ LET m  == search(text[r])
           nx == ExtractStep(ScanLocals(r), m)
       IN  /\ m.found
           /\ text' = [text EXCEPT ![r] = nx.text]
           /\ placeholder_i' = [placeholder_i EXCEPT ![CounterOf(r)] = nx.placeholder_i]
           /\ store' = [store EXCEPT ![StoreOf(r)] = nx.store]
    /\ Interleave(r)
    /\ UNCHANGED <<title, prompt_literal_start, parse_vars, lines, todo, new_lines,
                   is_ty_code, pc, resolved>>

\* lines 172-182: break, Termynal(...), and the start of the for loop
ScanDone(r) ==
    /\ pc[r] = "scan"
    /\ ~search(text[r]).found
    /\ new_lines' = [new_lines EXCEPT ![r] = <<>>]
    /\ is_ty_code' = [is_ty_code EXCEPT ![r] = FALSE]
    /\ todo' = [todo EXCEPT ![r] = SplitLines(text[r])]
    /\ pc' = [pc EXCEPT ![r] = "emit"]
    /\ Interleave(r)
    /\ UNCHANGED <<title, prompt_literal_start, parse_vars, lines, text, placeholder_i,
                   store, resolved>>

\* the locals of phase 2 as EmitStep takes them
EmitLocals(r) ==
    [seen |-> Len(SplitLines(text[r])) - Len(todo[r]), new_lines |-> new_lines[r],
     is_ty_code |-> is_ty_code[r], resolved |-> resolved[r], raised |-> FALSE]

\* lines 182-193: the next line of the for loop takes branch b
EmitIteration(r, b) ==
    /\ pc[r] = "emit"
    /\ todo[r] # <<>>
    /\ EmitBranch(is_ty_code[r], store[StoreOf(r)], Head(todo[r])) = b
    /\ LET nx == EmitStep(EmitLocals(r), store[StoreOf(r)], title, regex_prompts, Head(todo[r]))
       IN  /\ new_lines' = [new_lines EXCEPT ![r] = nx.new_lines]
           /\ is_ty_code' = [is_ty_code EXCEPT ![r] = nx.is_ty_code]
           /\ resolved' = [resolved EXCEPT ![r] = nx.resolved]
           /\ pc' = [pc EXCEPT ![r] = IF nx.raised THEN "raised" ELSE "emit"]
           /\ todo' = [todo EXCEPT ![r] = IF nx.raised THEN @ ELSE Tail(@)]
    /\ Interleave(r)
    /\ UNCHANGED <<title, prompt_literal_start, parse_vars, lines, text, placeholder_i, store>>

\* lines 183-185
EmitMarker(r) ==
    /\ pc[r] = "emit"
    /\ EmitIteration(r, "marker")

\* convert(...) returns
ConvertReturns(r) ==
    ~convert(title, regex_prompts, escape(StoredCode(store[StoreOf(r)][Head(todo[r])]))).raised

\* lines 187-189
EmitConvert(r) ==
    /\ todo[r] # <<>>
    /\ EmitIteration(r, "convert")
    /\ ConvertReturns(r)

\* line 188, convert raising
EmitRaise(r) ==
    /\ todo[r] # <<>>
    /\ EmitIteration(r, "convert")
    /\ ~ConvertReturns(r)

\* lines 190-191
EmitRestore(r) ==
    /\ todo[r] # <<>>
    /\ EmitIteration(r, "restore")

\* lines 192-193
EmitLine(r) ==
    /\ pc[r] = "emit"
    /\ EmitIteration(r, "line")

\* line 195
RunReturn(r) ==
    /\ pc[r] = "emit"
    /\ todo[r] = <<>>
    /\ pc' = [pc EXCEPT ![r] = "returned"]
    /\ Interleave(r)
    /\ UNCHANGED <<title, prompt_literal_start, parse_vars, lines, text, placeholder_i,
                   store, todo, new_lines, is_ty_code, resolved>>

RunStep(r) ==
    \/ RunEnter(r)
    \/ ExtractFence(r)
    \/ ScanDone(r)
    \/ EmitMarker(r)
    \/ EmitConvert(r)
    \/ EmitRaise(r)
    \/ EmitRestore(r)
    \/ EmitLine(r)
    \/ RunReturn(r)

NextRun == RunStep(1)

SpecRun == InitRun /\ [][NextRun]_vars

\* the call has not returned and has not raised: one of the steps of run is enabled
CanStep == pc[1] \in {"idle", "scan", "emit"}

\* run is sequential code, a call that can take its next step takes it: weak
\* fairness of NextRun, its enabling condition written out as CanStep
SpecRunFair == SpecRun /\ (<>[]CanStep => []<><<NextRun>>_vars)

(***************************************************************************)
(* Two runs on one instance, their steps interleaved                       *)
(***************************************************************************)

\* longest document of two interleaved runs
MaxPairLines == 3

\* lines of the documents of two interleaved runs: "```" and "<!-- termynal -->"
PairLinePool == { Fence3, ty_comment }

PairDocuments == SeqsUpTo(PairLinePool, MaxPairLines) \ {<<>>}

\* the configurations of the shared instance
PairConfigs ==
    { [title |-> NoTitle, prompts |-> <<(<<"$"," ">>)>>],
      [title |-> NoTitle, prompts |-> <<>>] }

InitRuns ==
    /\ \E cfg \in PairConfigs : title = cfg.title /\ prompt_literal_start = cfg.prompts
    /\ lines \in [Runs -> PairDocuments]
    /\ text = [r \in Runs |-> <<>>]
    /\ placeholder_i = [r \in Runs |-> 0]
    /\ store = [r \in Runs |-> NoStore]
    /\ todo = [r \in Runs |-> <<>>]
    /\ new_lines = [r \in Runs |-> <<>>]
    /\ is_ty_code = [r \in Runs |-> FALSE]
    /\ pc = [r \in Runs |-> "idle"]
    /\ resolved = [r \in Runs |-> <<>>]
    /\ interleaved = FALSE
    /\ ParseIdle

NextRuns == \E r \in Runs : RunStep(r)

SpecRuns == InitRuns /\ [][NextRuns]_vars

(***************************************************************************)
(* Properties of TermynalPreprocessor.run                                  *)
(***************************************************************************)

LineSegments(ls) == [k \in 1..Len(ls) |-> [fence |-> FALSE, text |-> ls[k], code |-> <<>>]]

\* a document text cut, by one scan from left to right, into its fenced
\* blocks and the lines outside them
RECURSIVE Segments(_)
Segments(t) ==
    LET m == search(t)
    IN  IF ~m.found THEN LineSegments(SplitLines(t))
        ELSE (IF m.start > 1 THEN LineSegments(SplitLines(SubSeq(t, 1, m.start - 2))) ELSE <<>>)
             \o <<[fence |-> TRUE, text |-> SubSeq(t, m.start, m.end - 1), code |-> m.code]>>
             \o (IF m.end <= Len(t) THEN Segments(SubSeq(t, m.end + 1, Len(t))) ELSE <<>>)

\* the segments of the document of run r
DocSegments(r) == IF lines[r] = <<>> THEN <<>> ELSE Segments(Join(lines[r], <<"\n">>))

IsFence(seg) == seg.fence

\* the fenced blocks of the document of run r, in order
DocFences(r) == SelectSeq(DocSegments(r), IsFence)

IsMarkerLine(seg) == ~seg.fence /\ StartsWith(seg.text, ty_comment)

\* the document of run r has no marker line outside its fenced blocks
NoMarker(r) == \A g \in 1..Len(DocSegments(r)) : ~IsMarkerLine(DocSegments(r)[g])

\* the texts of the fenced blocks that no marker line precedes
RECURSIVE FencesBeforeMarker(_)
FencesBeforeMarker(segs) ==
    IF segs = <<>> \/ IsMarkerLine(Head(segs)) THEN <<>>
    ELSE (IF Head(segs).fence THEN <<Head(segs).text>> ELSE <<>>) \o FencesBeforeMarker(Tail(segs))

\* a is b with some elements left out
RECURSIVE IsSubsequence(_, _)
IsSubsequence(a, b) ==
    IF a = <<>> THEN TRUE
    ELSE IF b = <<>> THEN FALSE
    ELSE IF Head(a) = Head(b) THEN IsSubsequence(Tail(a), Tail(b))
    ELSE IsSubsequence(a, Tail(b))

\* C1: the fenced blocks that are not marked come back as their original
\* text, opening line, body and closing line, each as one element of the
\* output and in the order of the document.
C1_UnmarkedFencesVerbatim ==
    \A r \in Runs :
       pc[r] = "returned" => IsSubsequence(FencesBeforeMarker(DocSegments(r)), new_lines[r])

\* a returned run on a document without marker that has a fenced block with a body
C1_Witness ==
    /\ pc[1] = "returned"
    /\ NoMarker(1)
    /\ \E k \in 1..Len(DocFences(1)) : DocFences(1)[k].code # <<>>
    /\ \E j \in 1..Len(new_lines[1]) : new_lines[1][j] = DocFences(1)[1].text

\* segment g follows a marker line directly
MarkerDirectlyBefore(segs, g) == g > 1 /\ IsMarkerLine(segs[g - 1])

\* the index in segs of its k-th fenced block
FenceSegment(segs, k) ==
    CHOOSE g \in 1..Len(segs) :
       segs[g].fence /\ Cardinality({h \in 1..g : segs[h].fence}) = k

\* the number of the line that holds the placeholder of the k-th fenced block
\* in the text after phase 1: every block before it stands for three lines
PlaceholderLine(segs, k) == FenceSegment(segs, k) + 2 * (k - 1) + 1

\* the k-th fenced block of run r was converted
Converted(r, k) ==
    \E j \in 1..Len(resolved[r]) :
       /\ resolved[r][j].at = PlaceholderLine(DocSegments(r), k)
       /\ resolved[r][j].how = "convert"

\* C2: a fenced block is converted if and only if a marker line is the line
\* directly before its opening fence.
C2_ConvertedIffMarkerDirectlyBefore ==
    \A r \in Runs :
       pc[r] = "returned" =>
          \A k \in 1..Len(DocFences(r)) :
             Converted(r, k) <=> MarkerDirectlyBefore(DocSegments(r), FenceSegment(DocSegments(r), k))

\* the lines between the opening and the closing line of a fenced block
BodyLines(seg) == SubSeq(SplitLines(seg.text), 2, Len(SplitLines(seg.text)) - 1)

\* C3: the classifier is handed exactly the (escaped) body lines of a
\* converted block, and the emitted container is the markup of their blocks.
C3_ClassifierGetsBodyLines ==
    \A r \in Runs :
       pc[r] = "returned" =>
          \A k \in 1..Len(DocFences(r)) :
             Converted(r, k) =>
                LET body == [j \in 1..Len(BodyLines(DocFences(r)[k])) |->
                                escape(BodyLines(DocFences(r)[k])[j])]
                    res  == parse(regex_prompts, body)
                IN  /\ ClassifiedLines(escape(DocFences(r)[k].code)) = body
                    /\ \E j \in 1..Len(new_lines[r]) :
                          new_lines[r][j] =
                             ContainerOpen(title)
                             \o Concat([b \in 1..Len(res.parsed) |-> RenderBlock(res.parsed[b])])
                             \o <<"<","/","d","i","v",">">>

\* C8: runs share no mutable state: the store of a run holds the tokens of
\* that run's counter and nothing else, and a run whose steps are
\* interleaved with another run's returns, or raises, as it does alone.
C8_RunsIndependent ==
    \A r \in Runs :
       /\ pc[r] \in {"scan", "emit", "returned", "raised"} =>
             DOMAIN store[r] = {Placeholder(n) : n \in 0..(placeholder_i[r] - 1)}
       /\ pc[r] = "returned" =>
             /\ ~run(title, regex_prompts, lines[r]).raised
             /\ new_lines[r] = run(title, regex_prompts, lines[r]).new_lines
       /\ pc[r] = "raised" => run(title, regex_prompts, lines[r]).raised

\* two runs on different documents with fenced blocks have both returned,
\* after steps of one were taken in the middle of the other
C8_Witness ==
    /\ interleaved
    /\ pc[1] = "returned" /\ pc[2] = "returned"
    /\ lines[1] # lines[2]
    /\ resolved[1] # <<>> /\ resolved[2] # <<>>
    /\ new_lines[1] # new_lines[2]

\* C10 as stated: without a marker line nothing is added or removed, and
\* the output joined with newlines is the input text.
C10_OutputReproducesInput ==
    \A r \in Runs :
       pc[r] = "returned" /\ NoMarker(r) =>
          Join(new_lines[r], <<"\n">>) = Join(lines[r], <<"\n">>)

\* the lines of the text after phase 1: a fenced block gives an empty line,
\* its placeholder and an empty line
RECURSIVE PlaceholderLines(_, _)
PlaceholderLines(segs, n) ==
    IF segs = <<>> THEN <<>>
    ELSE IF Head(segs).fence
    THEN << <<>>, Placeholder(n), <<>> >> \o PlaceholderLines(Tail(segs), n + 1)
    ELSE <<Head(segs).text>> \o PlaceholderLines(Tail(segs), n)

\* the output for a document without marker line: a fenced block gives an
\* empty line, its text and an empty line; a line that spells the placeholder
\* of a fenced block gives that block's text; any other line gives itself
RestoredLines(segs, fences) ==
    LET ls == PlaceholderLines(segs, 0)
    IN  [j \in 1..Len(ls) |->
            IF \E k \in 1..Len(fences) : ls[j] = Placeholder(k - 1)
            THEN fences[CHOOSE k \in 1..Len(fences) : ls[j] = Placeholder(k - 1)].text
            ELSE ls[j]]

\* C10, amended: phase 1 replaces each matched fence by three lines, an
\* empty line, the placeholder and an empty line; for a document without a
\* marker line the output is the input's lines outside the fences, in order
\* and unchanged unless a line spells a placeholder of the run, with every
\* fence restored in place as one element between two added empty lines.
C10_FenceBetweenEmptyLines ==
    \A r \in Runs :
       pc[r] \in {"emit", "returned"} =>
          LET segs == DocSegments(r)
          IN  /\ SplitLines(text[r]) = PlaceholderLines(segs, 0)
              /\ (pc[r] = "returned" /\ \A g \in 1..Len(segs) : ~IsMarkerLine(segs[g])) =>
                    new_lines[r] = RestoredLines(segs, SelectSeq(segs, IsFence))

\* a returned run on a document without marker that has a fenced block and
\* a line outside it
C10_Witness ==
    /\ pc[1] = "returned"
    /\ NoMarker(1)
    /\ Len(DocFences(1)) >= 1
    /\ Len(DocSegments(1)) > Len(DocFences(1))
    /\ Len(new_lines[1]) = Len(DocSegments(1)) + 2 * Len(DocFences(1))

(***************************************************************************)
(* The closing fence                                                       *)
(***************************************************************************)

\* the line opens a fenced block: three or more fence characters and the
\* info string the pattern allows
OpensFence(line) ==
    /\ FenceRun(line, 1) >= 3
    /\ OpenEnds(line \o <<"\n">>, 1, FenceRun(line, 1)) # {}

\* the line is n characters ch (or more, when longer is allowed), then spaces only
ClosesFence(line, ch, n, longer) ==
    /\ IF longer THEN FenceRun(line, 1) >= n ELSE FenceRun(line, 1) = n
    /\ line[1] = ch
    /\ SkipWhile(line, FenceRun(line, 1) + 1, {" "}) = Len(line) + 1

\* the fenced blocks of the lines ls from line i on, a block being closed
\* by the first following line that ClosesFence accepts
RECURSIVE FencedBlocksFrom(_, _, _)
FencedBlocksFrom(ls, i, longer) ==
    IF i > Len(ls) THEN <<>>
    ELSE LET closes == {j \in (i + 1)..Len(ls) :
                           ClosesFence(ls[j], ls[i][1], FenceRun(ls[i], 1), longer)}
         IN  IF OpensFence(ls[i]) /\ closes # {}
             THEN LET j == CHOOSE j \in closes : \A h \in closes : j <= h
                  IN  <<Join(SubSeq(ls, i, j), <<"\n">>)>>
                      \o FencedBlocksFrom(ls, j + 1, longer)
             ELSE FencedBlocksFrom(ls, i + 1, longer)

\* the matched texts phase 1 has stored in run r, in the order of their tokens
StoredFences(r) ==
    [k \in 1..placeholder_i[r] |-> StoredText(store[r][Placeholder(k - 1)])]

\* C11 as stated: the blocks phase 1 extracts are the blocks that an opening
\* fence of N characters and the first following line of N or more of the
\* same character delimit; a longer closing line closes as an equal one does.
C11_LongerFenceCloses ==
    \A r \in Runs :
       pc[r] \in {"emit", "returned", "raised"} =>
          StoredFences(r) = FencedBlocksFrom(lines[r], 1, TRUE)

\* C11, amended: a block opened by a fence of N characters is closed by the
\* first following line that is exactly the same N characters, then spaces
\* only; a line of more of them is a line of the body.
C11_SameFenceCloses ==
    \A r \in Runs :
       pc[r] \in {"emit", "returned", "raised"} =>
          StoredFences(r) = FencedBlocksFrom(lines[r], 1, FALSE)

\* a stored block whose body holds a longer run of the character of its fence
C11_Witness ==
    /\ pc[1] = "returned"
    /\ \E k \in 1..placeholder_i[1] :
          LET ls == SplitLines(StoredFences(1)[k])
          IN  \E j \in 2..(Len(ls) - 1) :
                 /\ FenceRun(ls[j], 1) > FenceRun(ls[1], 1)
                 /\ ls[j][1] = ls[1][1]

(***************************************************************************)
(* Termination of phase 1                                                  *)
(***************************************************************************)

\* where the text that can still match a fence begins: the start of the
\* leftmost match, or the end of the text when nothing matches
MatchFrom(t) == IF search(t).found THEN search(t).start ELSE Len(t) + 1

\* the amount of text that can still match a fence
Remaining(t) == Len(t) + 1 - MatchFrom(t)

\* C12: an iteration of phase 1 leaves no match that starts in or before the
\* placeholder line it inserts and strictly reduces the text that can still
\* match; when the loop has ended nothing matches, and the iterations, the
\* stored blocks and the fenced blocks of the document are equally many;
\* the loop ends.
C12_PhaseOneTerminates ==
    /\ [][ExtractFence(1) =>
             /\ MatchFrom(text'[1]) >
                   MatchFrom(text[1]) + Len(Placeholder(placeholder_i[1])) + 1
             /\ Remaining(text'[1]) < Remaining(text[1])]_vars
    /\ [](pc[1] \in {"emit", "returned", "raised"} =>
             /\ ~search(text[1]).found
             /\ Cardinality(DOMAIN store[1]) = placeholder_i[1]
             /\ placeholder_i[1] = Len(DocFences(1)))
    /\ (pc[1] = "scan" ~> pc[1] = "emit")

\* phase 1 has ended after two iterations that made the text longer
C12_Witness ==
    /\ pc[1] = "emit"
    /\ placeholder_i[1] = 2
    /\ ~search(text[1]).found
    /\ Len(text[1]) > Len(Join(lines[1], <<"\n">>))

(***************************************************************************)
(* The numbering of the placeholder tokens                                 *)
(***************************************************************************)

\* C13: the tokens of a run are pairwise distinct and numbered from 0 in
\* the order of the document: the k-th token is the key of the inner code
\* and of the matched text of the k-th fenced block, and the tokens stand in
\* the text where their blocks stood.
C13_TokensInDocumentOrder ==
    \A r \in Runs :
       pc[r] \in {"scan", "emit", "returned", "raised"} =>
          LET segs   == DocSegments(r)
              fences == SelectSeq(segs, IsFence)
          IN  /\ DOMAIN store[r] = {Placeholder(n) : n \in 0..(placeholder_i[r] - 1)}
              /\ Cardinality(DOMAIN store[r]) = placeholder_i[r]
              /\ placeholder_i[r] <= Len(fences)
              /\ \A k \in 1..placeholder_i[r] :
                    /\ StoredCode(store[r][Placeholder(k - 1)]) = fences[k].code
                    /\ StoredText(store[r][Placeholder(k - 1)]) = fences[k].text
              /\ pc[r] # "scan" =>
                    /\ placeholder_i[r] = Len(fences)
                    /\ SplitLines(text[r]) = PlaceholderLines(segs, 0)

\* phase 1 has stored two different fenced blocks under the tokens 0 and 1
C13_Witness ==
    /\ pc[1] \in {"emit", "returned"}
    /\ placeholder_i[1] = 2
    /\ DOMAIN store[1] = {Placeholder(0), Placeholder(1)}
    /\ store[1][Placeholder(0)] # store[1][Placeholder(1)]
    /\ StoredText(store[1][Placeholder(1)]) = DocFences(1)[2].text

(***************************************************************************)
(* Placeholder lines and lines of the document                             *)
(***************************************************************************)

\* C14: phase 2 treats as placeholders only the lines phase 1 inserted, each
\* the line of the token of its own block, and consults every entry of the
\* store exactly once.
C14_OnlyInsertedLinesResolved ==
    \A r \in Runs :
       pc[r] = "returned" =>
          /\ \A j \in 1..Len(resolved[r]) :
                \E k \in 1..Len(DocFences(r)) :
                   /\ resolved[r][j].at = PlaceholderLine(DocSegments(r), k)
                   /\ resolved[r][j].key = Placeholder(k - 1)
          /\ \A key \in DOMAIN store[r] :
                Cardinality({j \in 1..Len(resolved[r]) : resolved[r][j].key = key}) = 1

(***************************************************************************)
(* The marker line and the pending flag                                    *)
(***************************************************************************)

\* a marker line stands among the lines ls strictly between the lines a and b
MarkerBetween(ls, a, b) == \E i \in (a + 1)..(b - 1) : StartsWith(ls[i], ty_comment)

\* the number of elements the lines 1..a of ls give the output: one for
\* every line that is not a marker line
OutputIndex(ls, a) == a - Cardinality({i \in 1..a : StartsWith(ls[i], ty_comment)})

\* the line of the store lookup before the j-th one of run r, or 0
PrevAt(r, j) == IF j = 1 THEN 0 ELSE resolved[r][j - 1].at

\* C15: a marker line gives the output nothing; a placeholder is converted
\* exactly when a marker line stands between it and the placeholder resolved
\* before it, so the flag of one or of several marker lines is spent by the
\* first conversion, and a later block with no marker line of its own before
\* it is emitted as its stored text.
C15_MarkerSpentByFirstConversion ==
    \A r \in Runs :
       pc[r] \in {"emit", "returned"} =>
          LET ls   == SplitLines(text[r])
              seen == Len(ls) - Len(todo[r])
          IN  /\ \A j \in 1..Len(new_lines[r]) : ~StartsWith(new_lines[r][j], ty_comment)
              /\ Len(new_lines[r]) = OutputIndex(ls, seen)
              /\ \A j \in 1..Len(resolved[r]) :
                    /\ resolved[r][j].how = "convert"
                          <=> MarkerBetween(ls, PrevAt(r, j), resolved[r][j].at)
                    /\ resolved[r][j].how = "restore" =>
                          new_lines[r][OutputIndex(ls, resolved[r][j].at)]
                             = StoredText(store[r][resolved[r][j].key])
              /\ is_ty_code[r] <=> MarkerBetween(ls, PrevAt(r, Len(resolved[r]) + 1), seen + 1)

\* two marker lines, then a block that was converted, then a block with no
\* marker line of its own that was restored
C15_Witness ==
    /\ pc[1] = "returned"
    /\ Len(resolved[1]) = 2
    /\ resolved[1][1].how = "convert"
    /\ resolved[1][2].how = "restore"
    /\ Cardinality({i \in 1..resolved[1][1].at :
                       StartsWith(SplitLines(text[1])[i], ty_comment)}) = 2
    /\ Len(new_lines[1]) = Len(SplitLines(text[1])) - 2

(***************************************************************************)
(* Output blocks                                                           *)
(***************************************************************************)

\* C16: parsed never holds two Output blocks side by side; the output lines
\* consumed so far are whole lines of Output blocks, two of them in the same
\* block exactly when only output lines stand between them; after a Comment
\* or a Progress block no block is carried.
C16_ConsecutiveOutputsOneBlock ==
    parse_pc \in {"loop", "returned"} =>
       /\ \A b \in 1..(Len(parsed) - 1) :
             ~(parsed[b].kind = "Output" /\ parsed[b + 1].kind = "Output")
       /\ Len(Entries) = pos
       /\ \A i \in 1..pos :
             Entries[i].kind = "Output" =>
                /\ Entries[i].text = code_lines[i]
                /\ \A j \in (i + 1)..pos :
                      Entries[j].kind = "Output" =>
                         (Entries[i].block = Entries[j].block
                             <=> \A k \in i..j : Entries[k].kind = "Output")
       /\ (parsed # <<>> /\ parsed[Len(parsed)].kind \in {"Comment", "Progress"}) => prev = 0

\* two output lines in one Output block, then a Comment or a Progress block
C16_Witness ==
    /\ parse_pc = "returned"
    /\ Len(parsed) = 2
    /\ parsed[1].kind = "Output"
    /\ Len(parsed[1].lines) = 2
    /\ parsed[2].kind \in {"Comment", "Progress"}
    /\ prev = 0

(***************************************************************************)
(* Continuation lines                                                      *)
(***************************************************************************)

\* the line starts with the comment marker or with the progress marker
LooksLikeCommentOrProgress(line) ==
    StartsWith(line, comment_literal_start) \/ StartsWith(line, progress_literal_start)

\* C17: while multiline is set, an iteration on a line that is no prompt
\* line and starts with the comment or the progress marker appends the line
\* to the lines of the last block, a Command, and adds no block.
C17_ContinuationBeforeComment ==
    [][(/\ parse_pc = "loop"
        /\ pos < Len(code_lines)
        /\ multiline
        /\ ~IsPromptLine(code_lines[pos + 1])
        /\ LooksLikeCommentOrProgress(code_lines[pos + 1]))
       => /\ parsed # <<>>
          /\ Len(parsed') = Len(parsed)
          /\ parsed[Len(parsed)].kind = "Command"
          /\ parsed' = [parsed EXCEPT ![Len(parsed)].lines = Append(@, code_lines[pos + 1])]
          /\ pos' = pos + 1]_vars

\* a Command that holds, as a continuation line, a line that starts with
\* the comment or the progress marker, and no Comment or Progress block
C17_Witness ==
    /\ parse_pc \in {"loop", "returned"}
    /\ \E b \in 1..Len(parsed) :
          /\ parsed[b].kind = "Command"
          /\ \E k \in 2..Len(parsed[b].lines) : LooksLikeCommentOrProgress(parsed[b].lines[k])
    /\ \A b \in 1..Len(parsed) : parsed[b].kind \notin {"Comment", "Progress"}

\* C18: whenever multiline is set, the carried block is a Command and is
\* the last element of parsed, so a continuation line always has a Command
\* that takes it, and the blocks account for every line consumed.
C18_MultilineImpliesCommand ==
    parse_pc \in {"loop", "returned"} =>
       /\ multiline =>
             /\ prev # 0
             /\ prev = Len(parsed)
             /\ parsed[prev].kind = "Command"
       /\ (pos < Len(code_lines)
           /\ Branch(ParseState, regex_prompts, code_lines[pos + 1]) = "continuation") =>
             ContinuationBranch(ParseState, code_lines[pos + 1]).parsed
                = AppendToPrev(ParseState, code_lines[pos + 1])
       /\ Len(Entries) = pos

\* multiline is set after a continuation line was appended to a Command
C18_Witness ==
    /\ parse_pc = "loop"
    /\ multiline
    /\ prev = Len(parsed)
    /\ Len(parsed[prev].lines) >= 2
    /\ Continues(code_lines[pos])
    /\ ~IsPromptLine(code_lines[pos])

(***************************************************************************)
(* Placeholder tokens and stored text                                      *)
(***************************************************************************)

\* sub occurs in s
Contains(s, sub) ==
    \E i \in 1..(Len(s) - Len(sub) + 1) : SubSeq(s, i, i + Len(sub) - 1) = sub

\* the document of run r as one text
DocText(r) == Join(lines[r], <<"\n">>)

\* C19: what phase 1 stores is text of the document as it was written, the
\* inner code a part of the matched text, so it holds no token that the run
\* has put into the text; for a document that does not hold the marker
\* string, neither the store nor the output holds it.
C19_StoredTextHoldsNoToken ==
    \A r \in Runs :
       /\ pc[r] \in {"scan", "emit", "returned", "raised"} =>
             \A key \in DOMAIN store[r] :
                /\ Contains(DocText(r), StoredText(store[r][key]))
                /\ Contains(StoredText(store[r][key]), StoredCode(store[r][key]))
                /\ ~Contains(DocText(r), marker) =>
                      ~Contains(StoredText(store[r][key]), marker)
       /\ (pc[r] = "returned" /\ ~Contains(DocText(r), marker)) =>
             \A j \in 1..Len(new_lines[r]) : ~Contains(new_lines[r][j], marker)

\* a returned run on a document without the marker string, whose stored
\* block encloses a fenced block and was restored
C19_Witness ==
    /\ pc[1] = "returned"
    /\ ~Contains(DocText(1), marker)
    /\ placeholder_i[1] = 1
    /\ search(StoredCode(store[1][Placeholder(0)])).found
    /\ \E j \in 1..Len(new_lines[1]) : new_lines[1][j] = StoredText(store[1][Placeholder(0)])

====
